---- MODULE Spec2Model ----
(***************************************************************************)
(* expo-build-preflight: the configuration validator (three source         *)
(* variants: part_001, part_002, part_003) and the asset checker (two      *)
(* variants, both in scripts/check_assets.js: lines 1-128 and 129-227).    *)
(*                                                                         *)
(* One behaviour of the model is one run of one script.  The documents and *)
(* the file system are read-only during a run and every field is read at   *)
(* most once, so a field's value is chosen at the step that reads it and   *)
(* is then recorded in cfg (document fields) or world (files, probes).     *)
(***************************************************************************)
EXTENDS Integers, Sequences, FiniteSets, TLC

VARIABLES prog, pc, out, hasFails, summary, exitStatus, cfg, world, files, sizeOf

vars == <<prog, pc, out, hasFails, summary, exitStatus, cfg, world, files, sizeOf>>

(***************************************************************************)
(* JavaScript values.  Every value is a record of one shape: t is the      *)
(* type tag, n the number (or 0/1 for a boolean), s the text of a string   *)
(* split at its dots ("com.acme.app" is <<"com","acme","app">>, "" is      *)
(* <<>>).  An object keeps in s what the code reads of it: the policy of a *)
(* runtimeVersion object, the keys of an env object.                       *)
(***************************************************************************)
Undef == [t |-> "undefined", n |-> 0, s |-> <<>>]
Null == [t |-> "null", n |-> 0, s |-> <<>>]
Unread == [t |-> "unread", n |-> 0, s |-> <<>>]
Bool(b) == [t |-> "boolean", n |-> IF b THEN 1 ELSE 0, s |-> <<>>]
Num(k) == [t |-> "number", n |-> k, s |-> <<>>]
Str(segs) == [t |-> "string", n |-> 0, s |-> segs]
Obj(keys) == [t |-> "object", n |-> 0, s |-> keys]

\* JavaScript truthiness, as used by every `!x` and `if (x)` of the scripts.
Truthy(v) ==
  CASE v.t \in {"undefined", "null", "unread"} -> FALSE
    [] v.t = "boolean" -> v.n = 1
    [] v.t = "number" -> v.n # 0
    [] v.t = "string" -> v.s # <<>>
    [] OTHER -> TRUE

\* String.prototype.toLowerCase on one dot-separated segment.
Lower(seg) ==
  CASE seg = "COM" -> "com"
    [] seg = "Com" -> "com"
    [] seg = "BR" -> "br"
    [] seg = "Br" -> "br"
    [] seg = "Example" -> "example"
    [] seg = "EXAMPLE" -> "example"
    [] seg = "Test" -> "test"
    [] seg = "TEST" -> "test"
    [] seg = "Demo" -> "demo"
    [] seg = "DEMO" -> "demo"
    [] OTHER -> seg

\* ToNumber of a string: the decimal strings of the model, NaN otherwise.
NumericStrings == {"0", "34", "35", "36", "40"}

StringToNumber(seg) ==
  CASE seg = "0" -> 0
    [] seg = "34" -> 34
    [] seg = "35" -> 35
    [] seg = "36" -> 36
    [] seg = "40" -> 40
    [] OTHER -> 0

\* v is NaN after ToNumber (undefined, objects, non-numeric strings).
IsNaN(v) ==
  CASE v.t = "number" -> FALSE
    [] v.t = "boolean" -> FALSE
    [] v.t = "null" -> FALSE
    [] v.t = "string" -> ~(v.s = <<>> \/ (Len(v.s) = 1 /\ v.s[1] \in NumericStrings))
    [] OTHER -> TRUE

ToNumber(v) ==
  CASE v.t = "number" -> v.n
    [] v.t = "boolean" -> v.n
    [] v.t = "string" /\ Len(v.s) = 1 -> StringToNumber(v.s[1])
    [] OTHER -> 0

\* The abstract relational comparison `v < k` for a number k: false on NaN.
LessThan(v, k) == ~IsNaN(v) /\ ToNumber(v) < k

\* The regex without its i flag.
InvalidDomainCaseSensitive(v) ==
  /\ v.t = "string"
  /\ Len(v.s) >= 3
  /\ v.s[1] \in {"com", "br"}
  /\ v.s[2] \in {"example", "test", "demo"}

\* /^(com|br)\.(example|test|demo)\./i.test(v)
invalidDomainRegex(v) ==
  /\ v.t = "string"
  /\ Len(v.s) >= 3
  /\ Lower(v.s[1]) \in {"com", "br"}
  /\ Lower(v.s[2]) \in {"example", "test", "demo"}

(***************************************************************************)
(* Output.  A Finding is one logStatus line: its severity tag, the subject *)
(* it is about, the message (the source's text, shortened) and the values  *)
(* the message interpolates.  L is the pair (lines so far, hasFails).      *)
(* The variants word some messages and asset names differently ("Invalid   *)
(* android.package" / "Invalid/test android.package", "Android Foreground  *)
(* Image" / "Android Foreground"); the model keeps one wording for each.   *)
(***************************************************************************)
Finding(status, subject, msg, args) ==
  [sev |-> status, subject |-> subject, msg |-> msg, args |-> args]

\* logStatus with hasFails also set by a [WARN].
LogStatusWarnFails(L, status, subject, msg, args) ==
  [out |-> Append(L.out, Finding(status, subject, msg, args)),
   hasFails |-> L.hasFails \/ status \in {"[FAIL]", "[WARN]"}]

logStatus(L, status, subject, msg, args) ==
  [out |-> Append(L.out, Finding(status, subject, msg, args)),
   hasFails |-> L.hasFails \/ status = "[FAIL]"]

Validators == {"part_001", "part_002", "part_003"}
AssetCheckers == {"assets_direct", "assets_compiled"}


\* A step's result: the log, and whether process.exit was called, with what.
Cont(L) ==
  [out |-> L.out, hasFails |-> L.hasFails, exited |-> FALSE, code |-> 0, hung |-> FALSE]
Exit(L, status) ==
  [out |-> L.out, hasFails |-> L.hasFails, exited |-> TRUE, code |-> status, hung |-> FALSE]

\* execSync is called without a timeout option: a child process that never
\* returns blocks the caller for ever.
Hang(L) ==
  [out |-> L.out, hasFails |-> L.hasFails, exited |-> FALSE, code |-> 0, hung |-> TRUE]

\* An uncaught exception ends the process with status 1 and no logStatus line.
Uncaught(L) == Exit(L, 1)

NoArgs == <<>>

(***************************************************************************)
(* The configuration validator.                                            *)
(***************************************************************************)
TargetSdkThreshold == 35

\* pkg: the state of package.json; nm: whether node_modules exists.
checkLevelZeroPointFive(L, pkg, nm) ==
  IF pkg = "missing"
  THEN Exit(logStatus(L, "[FAIL]", "package.json", "package.json not found", NoArgs), 1)
  ELSE IF pkg = "malformed"
  THEN Uncaught(L)
  ELSE IF pkg = "noexpo"
  THEN Exit(logStatus(L, "[FAIL]", "package.json", "not an Expo project", NoArgs), 1)
  ELSE LET L1 == logStatus(L, "[PASS]", "package.json", "Expo project detected", NoArgs)
       IN IF ~nm
          THEN Exit(logStatus(L1, "[FAIL]", "node_modules", "node_modules not found", NoArgs), 1)
          ELSE Cont(logStatus(L1, "[PASS]", "node_modules", "node_modules directory found", NoArgs))

\* cmd: how `npx expo config --json` ended; envelope: whether its output
\* wraps the payload under "exp"; slug: the payload's slug.
\* part_001 accepts both envelopes and requires a slug; part_002 requires "exp".
getResolvedExpoConfig(L, p, cmd, envelope, slug) ==
  LET accepted ==
        /\ cmd = "ok"
        /\ IF p = "part_001" THEN Truthy(slug) ELSE envelope = "exp"
  IN IF cmd = "hangs" THEN Hang(L)
     ELSE IF accepted
     THEN Cont(logStatus(L, "[PASS]", "config", "Configuration evaluated successfully", NoArgs))
     ELSE Exit(logStatus(L, "[FAIL]", "config", "Failed to evaluate Expo config", NoArgs), 1)

\* part_003 run(): app.json is read and parsed directly.
readAppJson(L, file) ==
  IF file = "ok"
  THEN Cont(L)
  ELSE Exit(logStatus(L, "[FAIL]", "config", "Error reading app.json", NoArgs), 1)

androidPackageRule(L, v) ==
  IF ~Truthy(v) THEN logStatus(L, "[FAIL]", "android.package", "Missing android.package", NoArgs)
  ELSE IF invalidDomainRegex(v)
  THEN logStatus(L, "[FAIL]", "android.package", "Invalid android.package", <<v>>)
  ELSE logStatus(L, "[PASS]", "android.package", "Valid android.package", <<v>>)

iosBundleRule(L, v) ==
  IF ~Truthy(v) THEN logStatus(L, "[FAIL]", "ios.bundleIdentifier", "Missing ios.bundleIdentifier", NoArgs)
  ELSE IF invalidDomainRegex(v)
  THEN logStatus(L, "[FAIL]", "ios.bundleIdentifier", "Invalid ios.bundleIdentifier", <<v>>)
  ELSE logStatus(L, "[PASS]", "ios.bundleIdentifier", "Valid ios.bundleIdentifier", <<v>>)

schemeRule(L, v) ==
  IF ~Truthy(v) THEN logStatus(L, "[WARN]", "scheme", "Missing scheme", NoArgs)
  ELSE logStatus(L, "[PASS]", "scheme", "Scheme configured", <<v>>)

\* The test without its comparison of the policy.
IsFingerprintAnyObject(v) == v.t = "object"

\* typeof runtimeVersion === 'object' && runtimeVersion.policy === 'fingerprint'
IsFingerprint(v) == v.t = "object" /\ v.s = <<"fingerprint">>

runtimeVersionRule(L, v) ==
  IF ~Truthy(v) THEN logStatus(L, "[WARN]", "runtimeVersion", "Missing runtimeVersion", NoArgs)
  ELSE IF IsFingerprint(v)
  THEN logStatus(L, "[PASS]", "runtimeVersion", "runtimeVersion uses fingerprint policy", NoArgs)
  ELSE logStatus(L, "[WARN]", "runtimeVersion", "Prefer policy fingerprint", NoArgs)

\* The rule with `targetSdk <= 35` for `targetSdk < 35`.
targetSdkRuleOffByOne(L, p, v) ==
  IF ~Truthy(v)
  THEN IF p = "part_001"
       THEN logStatus(L, "[FAIL]", "android.targetSdkVersion", "targetSdkVersion is missing", NoArgs)
       ELSE logStatus(L, "[WARN]", "android.targetSdkVersion", "targetSdkVersion not explicitly set", NoArgs)
  ELSE IF LessThan(v, TargetSdkThreshold + 1)
  THEN logStatus(L, "[FAIL]", "android.targetSdkVersion", "targetSdkVersion is below 35", <<v>>)
  ELSE logStatus(L, "[PASS]", "android.targetSdkVersion", "Valid targetSdkVersion", <<v>>)

\* A missing targetSdkVersion is [FAIL] in part_001 and [WARN] in part_002, part_003.
targetSdkRule(L, p, v) ==
  IF ~Truthy(v)
  THEN IF p = "part_001"
       THEN logStatus(L, "[FAIL]", "android.targetSdkVersion", "targetSdkVersion is missing", NoArgs)
       ELSE logStatus(L, "[WARN]", "android.targetSdkVersion", "targetSdkVersion not explicitly set", NoArgs)
  ELSE IF LessThan(v, TargetSdkThreshold)
  THEN logStatus(L, "[FAIL]", "android.targetSdkVersion", "targetSdkVersion is below 35", <<v>>)
  ELSE logStatus(L, "[PASS]", "android.targetSdkVersion", "Valid targetSdkVersion", <<v>>)

\* The rule with `!expo.newArchEnabled` for `expo.newArchEnabled === false`.
newArchRuleFalsy(L, v) ==
  IF ~Truthy(v) THEN logStatus(L, "[WARN]", "newArchEnabled", "newArchEnabled is false", NoArgs)
  ELSE logStatus(L, "[PASS]", "newArchEnabled", "New Architecture not disabled", NoArgs)

newArchRule(L, v) ==
  IF v = Bool(FALSE) THEN logStatus(L, "[WARN]", "newArchEnabled", "newArchEnabled is false", NoArgs)
  ELSE logStatus(L, "[PASS]", "newArchEnabled", "New Architecture not disabled", NoArgs)

\* validateAppJson returning at the first identity [FAIL].
validateAppJsonReturnsOnFail(L, p, c) ==
  IF p = "part_003" /\ ~Truthy(c["expo"])
  THEN logStatus(L, "[FAIL]", "expo", "expo object not found", NoArgs)
  ELSE
    LET L1 == androidPackageRule(L, c["android.package"])
        L2 == iosBundleRule(L1, c["ios.bundleIdentifier"])
        L3 == schemeRule(L2, c["scheme"])
        L4 == runtimeVersionRule(L3, c["runtimeVersion"])
        L5 == targetSdkRule(L4, p, c["android.targetSdkVersion"])
    IN IF L1.hasFails /\ ~L.hasFails THEN L1
       ELSE IF L2.hasFails /\ ~L.hasFails THEN L2
       ELSE newArchRule(L5, c["newArchEnabled"])

\* validateAppJson with the scheme rule moved in front of the identity rules.
validateAppJsonSchemeFirst(L, p, c) ==
  IF p = "part_003" /\ ~Truthy(c["expo"])
  THEN logStatus(L, "[FAIL]", "expo", "expo object not found", NoArgs)
  ELSE
    LET L1 == schemeRule(L, c["scheme"])
        L2 == androidPackageRule(L1, c["android.package"])
        L3 == iosBundleRule(L2, c["ios.bundleIdentifier"])
        L4 == runtimeVersionRule(L3, c["runtimeVersion"])
        L5 == targetSdkRule(L4, p, c["android.targetSdkVersion"])
    IN newArchRule(L5, c["newArchEnabled"])

\* c: the fields of the expo object the function reads.
validateAppJson(L, p, c) ==
  IF p = "part_003" /\ ~Truthy(c["expo"])
  THEN logStatus(L, "[FAIL]", "expo", "expo object not found", NoArgs)
  ELSE
    LET L1 == androidPackageRule(L, c["android.package"])
        L2 == iosBundleRule(L1, c["ios.bundleIdentifier"])
        L3 == schemeRule(L2, c["scheme"])
        L4 == runtimeVersionRule(L3, c["runtimeVersion"])
        L5 == targetSdkRule(L4, p, c["android.targetSdkVersion"])
    IN newArchRule(L5, c["newArchEnabled"])

\* The comparison with != for !==: 1 == true.
AutoIncrementLoose(v) == ~(v = Bool(TRUE) \/ v = Num(1))

\* prodProfile.autoIncrement !== true
AutoIncrementNotTrue(v) == v # Bool(TRUE)

\* Object.keys(prodProfile.env || {})
EnvKeys(v) == IF Truthy(v) /\ v.t = "object" THEN v.s ELSE <<>>

\* validateEasJson without the return after the missing-profile FAIL.
profileRulesNoReturn(L, c) ==
  LET L0 == IF ~Truthy(c["build.production"])
            THEN logStatus(L, "[FAIL]", "build.production", "production profile not found", NoArgs)
            ELSE L
      L1 == IF AutoIncrementNotTrue(c["autoIncrement"])
            THEN logStatus(L0, "[FAIL]", "autoIncrement", "autoIncrement is not true", NoArgs)
            ELSE logStatus(L0, "[PASS]", "autoIncrement", "autoIncrement is active", NoArgs)
  IN IF Len(EnvKeys(c["env"])) = 0
     THEN logStatus(L1, "[WARN]", "env", "No env variables detected", NoArgs)
     ELSE logStatus(L1, "[PASS]", "env", "Environment variables detected", <<c["env"]>>)

validateEasJson(L, c) ==
  IF ~Truthy(c["build.production"])
  THEN logStatus(L, "[FAIL]", "build.production", "production profile not found", NoArgs)
  ELSE
    LET L1 == IF AutoIncrementNotTrue(c["autoIncrement"])
              THEN logStatus(L, "[FAIL]", "autoIncrement", "autoIncrement is not true", NoArgs)
              ELSE logStatus(L, "[PASS]", "autoIncrement", "autoIncrement is active", NoArgs)
    IN IF Len(EnvKeys(c["env"])) = 0
       THEN logStatus(L1, "[WARN]", "env", "No env variables detected", NoArgs)
       ELSE logStatus(L1, "[PASS]", "env", "Environment variables detected", <<c["env"]>>)

\* run(): the try block around reading, parsing and validating eas.json.
readEasJson(L, file, c) ==
  IF file = "ok"
  THEN validateEasJson(L, c)
  ELSE logStatus(L, "[FAIL]", "eas.json", "Error reading eas.json", NoArgs)

\* The git probe: part_001 has none.
gitRule(L, p, git) ==
  IF p = "part_001" THEN L
  ELSE IF git = "dirty" THEN logStatus(L, "[WARN]", "git", "uncommitted Git changes", NoArgs)
  ELSE IF git = "clean" THEN logStatus(L, "[PASS]", "git", "Git working tree is clean", NoArgs)
  ELSE logStatus(L, "[WARN]", "git", "Could not check Git status", NoArgs)

\* checkLevelZeroBasics without process.exit(1) on a missing eas.json.
checkLevelZeroBasicsNoExit(L, p, easExists, projectId, lock, git) ==
  LET L1 == IF ~easExists
            THEN logStatus(L, "[FAIL]", "eas.json", "eas.json not found", NoArgs)
            ELSE logStatus(L, "[PASS]", "eas.json", "eas.json exists", NoArgs)
      L2 == IF ~Truthy(projectId)
            THEN logStatus(L1, "[FAIL]", "projectId", "Missing expo.extra.eas.projectId", NoArgs)
            ELSE logStatus(L1, "[PASS]", "projectId", "Project linked to EAS", <<projectId>>)
      L3 == IF ~lock
            THEN logStatus(L2, "[FAIL]", "lockfile", "No lockfile found", NoArgs)
            ELSE logStatus(L2, "[PASS]", "lockfile", "Lockfile detected", NoArgs)
  IN Cont(L3)

\* easExists: fs.existsSync(easJsonPath); projectId: expo.extra.eas.projectId;
\* lock: whether one of the four lockfiles exists; git: the probe's answer.
checkLevelZeroBasics(L, p, easExists, projectId, lock, git) ==
  IF ~easExists
  THEN Exit(logStatus(L, "[FAIL]", "eas.json", "eas.json not found", NoArgs), 1)
  ELSE
    LET L1 == logStatus(L, "[PASS]", "eas.json", "eas.json exists", NoArgs)
        L2 == IF ~Truthy(projectId)
              THEN logStatus(L1, "[FAIL]", "projectId", "Missing expo.extra.eas.projectId", NoArgs)
              ELSE logStatus(L1, "[PASS]", "projectId", "Project linked to EAS", <<projectId>>)
        L3 == IF ~lock
              THEN logStatus(L2, "[FAIL]", "lockfile", "No lockfile found", NoArgs)
              ELSE logStatus(L2, "[PASS]", "lockfile", "Lockfile detected", NoArgs)
    IN Cont(gitRule(L3, p, git))

\* The end of run(): the summary line and the exit status.
summaryLine(fails) == IF fails THEN "failed" ELSE "successful"

exitCode(fails) == IF fails THEN 1 ELSE 0


(***************************************************************************)
(* The asset checker.  f is what the file system holds at an asset's path: *)
(* state "missing", "corrupt" (exists, image-size throws) or "image" with  *)
(* its width w and height h.                                               *)
(***************************************************************************)
RequiredSize == 1024

checkFileExistence(L, path, name, f) ==
  IF f.state = "missing"
  THEN logStatus(L, "[FAIL]", name, "File not found at path", <<path>>)
  ELSE logStatus(L, "[PASS]", name, "File exists", <<path>>)

\* The comparison failing only when both the width and the height differ.
checkDimensionsBothDiffer(L, probe, name, f, requiredWidth, requiredHeight) ==
  IF ~probe \/ f.state = "missing" THEN L
  ELSE IF f.state = "corrupt"
  THEN logStatus(L, "[FAIL]", name, "Could not parse image dimensions", NoArgs)
  ELSE IF f.w # requiredWidth /\ f.h # requiredHeight
  THEN logStatus(L, "[FAIL]", name, "Invalid dimensions",
                 <<Num(requiredWidth), Num(requiredHeight), Num(f.w), Num(f.h)>>)
  ELSE logStatus(L, "[PASS]", name, "Dimensions are correct", <<Num(requiredWidth), Num(requiredHeight)>>)

\* Without the guard on sizeOf the call of undefined throws inside the try.
checkDimensionsNoGuard(L, probe, name, f, requiredWidth, requiredHeight) ==
  IF f.state = "missing" THEN L
  ELSE IF ~probe \/ f.state = "corrupt"
  THEN logStatus(L, "[FAIL]", name, "Could not parse image dimensions", NoArgs)
  ELSE IF f.w # requiredWidth \/ f.h # requiredHeight
  THEN logStatus(L, "[FAIL]", name, "Invalid dimensions",
                 <<Num(requiredWidth), Num(requiredHeight), Num(f.w), Num(f.h)>>)
  ELSE logStatus(L, "[PASS]", name, "Dimensions are correct", <<Num(requiredWidth), Num(requiredHeight)>>)

\* probe: whether require('image-size') succeeded; a missing file gives a null path.
checkDimensions(L, probe, name, f, requiredWidth, requiredHeight) ==
  IF ~probe \/ f.state = "missing" THEN L
  ELSE IF f.state = "corrupt"
  THEN logStatus(L, "[FAIL]", name, "Could not parse image dimensions", NoArgs)
  ELSE IF f.w # requiredWidth \/ f.h # requiredHeight
  THEN logStatus(L, "[FAIL]", name, "Invalid dimensions",
                 <<Num(requiredWidth), Num(requiredHeight), Num(f.w), Num(f.h)>>)
  ELSE logStatus(L, "[PASS]", name, "Dimensions are correct", <<Num(requiredWidth), Num(requiredHeight)>>)

\* checkFileExistence followed by checkDimensions at 1024x1024.
checkAsset(L, probe, path, name, f) ==
  checkDimensions(checkFileExistence(L, path, name, f), probe, name, f, RequiredSize, RequiredSize)

\* 1. General Icon
iconBlock(L, probe, icon, f) ==
  IF Truthy(icon) THEN checkAsset(L, probe, icon, "Global Icon", f)
  ELSE logStatus(L, "[FAIL]", "Global Icon", "Missing global icon", NoArgs)

\* 2. Splash Screen: existence only.
splashBlock(L, image, f) ==
  IF Truthy(image) THEN checkFileExistence(L, image, "Splash Screen", f)
  ELSE logStatus(L, "[WARN]", "Splash Screen", "No custom splash screen image configured", NoArgs)

\* The background check rejecting a colour declared beside an image.
backgroundExactlyOne(L, probe, color, image, f) ==
  IF Truthy(color) /\ Truthy(image)
  THEN logStatus(L, "[FAIL]", "Android Background", "requires backgroundColor or backgroundImage", NoArgs)
  ELSE IF Truthy(color)
  THEN logStatus(L, "[PASS]", "Android Background", "background color is set", <<color>>)
  ELSE IF Truthy(image)
  THEN checkAsset(L, probe, image, "Android Background Image", f)
  ELSE logStatus(L, "[FAIL]", "Android Background", "requires backgroundColor or backgroundImage", NoArgs)

\* The background check with a [WARN] where neither field is set.
backgroundWarnsOnly(L, probe, color, image, f) ==
  IF Truthy(color)
  THEN logStatus(L, "[PASS]", "Android Background", "background color is set", <<color>>)
  ELSE IF Truthy(image)
  THEN checkAsset(L, probe, image, "Android Background Image", f)
  ELSE logStatus(L, "[WARN]", "Android Background", "requires backgroundColor or backgroundImage", NoArgs)

\* The background of the adaptive icon: backgroundColor first, then backgroundImage.
backgroundBlock(L, probe, color, image, f) ==
  IF Truthy(color)
  THEN logStatus(L, "[PASS]", "Android Background", "background color is set", <<color>>)
  ELSE IF Truthy(image)
  THEN checkAsset(L, probe, image, "Android Background Image", f)
  ELSE logStatus(L, "[FAIL]", "Android Background", "requires backgroundColor or backgroundImage", NoArgs)

\* The foreground image treated as required.
foregroundRequired(L, probe, image, f) ==
  IF Truthy(image) THEN checkAsset(L, probe, image, "Android Foreground Image", f)
  ELSE logStatus(L, "[FAIL]", "Android Foreground Image", "Missing foregroundImage", NoArgs)

foregroundBlock(L, probe, image, f) ==
  IF Truthy(image) THEN checkAsset(L, probe, image, "Android Foreground Image", f)
  ELSE logStatus(L, "[WARN]", "Android Foreground Image", "Missing foregroundImage", NoArgs)

\* 3. Android Adaptive Icon.  Only assets_direct warns when none is configured.
adaptiveBlock(L, p, probe, c, fg, bg) ==
  IF Truthy(c["android.adaptiveIcon"])
  THEN backgroundBlock(foregroundBlock(L, probe, c["foregroundImage"], fg),
                       probe, c["backgroundColor"], c["backgroundImage"], bg)
  ELSE IF p = "assets_direct"
  THEN logStatus(L, "[WARN]", "Android Adaptive Icon", "No Android adaptiveIcon configured", NoArgs)
  ELSE L

\* 4. iOS Icon: only when declared.
iosIconBlock(L, probe, icon, f) ==
  IF Truthy(icon) THEN checkAsset(L, probe, icon, "iOS Specific Icon", f) ELSE L

\* assets_direct run(): app.json must exist, parse, and hold an "expo" object.
\* readFileSync stands outside the try: a file that exists and cannot be
\* read ("unreadable") throws uncaught.
loadAppJson(L, file, expo) ==
  IF file = "missing"
  THEN Exit(logStatus(L, "[FAIL]", "config", "app.json not found", NoArgs), 1)
  ELSE IF file = "unreadable"
  THEN Uncaught(L)
  ELSE IF file = "malformed"
  THEN Exit(logStatus(L, "[FAIL]", "config", "Invalid app.json format", NoArgs), 1)
  ELSE IF ~Truthy(expo)
  THEN Exit(logStatus(L, "[FAIL]", "config", "Missing expo object in app.json", NoArgs), 1)
  ELSE Cont(L)

\* assets_compiled run(): `npx expo config --json`, then parsed.exp || parsed.
compileConfig(L, cmd) ==
  IF cmd = "hangs" THEN Hang(L)
  ELSE IF cmd = "ok"
  THEN Cont(L)
  ELSE Exit(logStatus(L, "[FAIL]", "config", "Failed to compile Expo config", NoArgs), 1)

\* Module load: require('image-size') in a try; the catch logs one [WARN].
loadProbe(L, probe) ==
  IF probe THEN L
  ELSE logStatus(L, "[WARN]", "image-size", "image-size is not installed", NoArgs)


(***************************************************************************)
(* run() as a function of what a run reads: p the script, c the document   *)
(* fields, w the files and probe answers, f the asset files, probe whether *)
(* image-size loaded.  A value the run never reads is never used.          *)
(***************************************************************************)
runValidator(p, c, w) ==
  LET r1 == checkLevelZeroPointFive([out |-> <<>>, hasFails |-> FALSE],
                                    w["package.json"], w["node_modules"] = "exists")
      r2 == IF p = "part_003"
            THEN readAppJson(r1, w["config"])
            ELSE getResolvedExpoConfig(r1, p, w["config"], w["envelope"], c["slug"])
      r3 == checkLevelZeroBasics(r2, p, w["eas.json"] = "exists", c["extra.eas.projectId"],
                                 w["lockfile"] = "exists", w["git"])
      r4 == validateAppJson(r3, p, c)
      r5 == readEasJson(r4, w["eas.json content"], c)
  IN IF r1.exited THEN r1
     ELSE IF r2.exited \/ r2.hung THEN r2
     ELSE IF r3.exited THEN r3
     ELSE Exit(r5, exitCode(r5.hasFails))

runAssets(p, c, w, f, probe) ==
  LET r0 == loadProbe([out |-> <<>>, hasFails |-> FALSE], probe)
      r1 == IF p = "assets_direct"
            THEN loadAppJson(r0, w["config"], c["expo"])
            ELSE compileConfig(r0, w["config"])
      r2 == iconBlock(r1, probe, c["icon"], f["icon"])
      r3 == splashBlock(r2, c["splash.image"], f["splash"])
      r4 == adaptiveBlock(r3, p, probe, c, f["foreground"], f["background"])
      r5 == iosIconBlock(r4, probe, c["ios.icon"], f["ios.icon"])
  IN IF r1.exited \/ r1.hung THEN r1
     ELSE Exit(r5, exitCode(r5.hasFails))

run(p, c, w, f, probe) ==
  IF p \in Validators THEN runValidator(p, c, w) ELSE runAssets(p, c, w, f, probe)

(***************************************************************************)
(* The inputs of a run.                                                    *)
(***************************************************************************)
MaxSdk == 35
MaxEnvKeys == 1

\* A run's input differs from the compliant baseline below in at most this
\* many places (document fields, files, probe answers).
MaxDeviations == 3

CfgKeys ==
  {"expo", "slug", "android.package", "ios.bundleIdentifier", "scheme",
   "runtimeVersion", "android.targetSdkVersion", "newArchEnabled",
   "extra.eas.projectId", "build.production", "autoIncrement", "env",
   "icon", "splash.image", "android.adaptiveIcon", "foregroundImage",
   "backgroundColor", "backgroundImage", "ios.icon"}

WorldKeys ==
  {"package.json", "node_modules", "config", "envelope", "eas.json",
   "eas.json content", "lockfile", "git"}

AssetNames == {"icon", "splash", "foreground", "background", "ios.icon"}

AcmeId == Str(<<"com", "acme", "app">>)
IdentifierValues ==
  {Undef, Str(<<>>), Str(<<"com", "example", "app">>), Str(<<"COM", "Test", "app">>),
   Str(<<"Br", "DEMO", "app">>), Str(<<"com", "example">>), Str(<<"org", "example", "app">>), AcmeId}
SchemeValues == {Undef, Str(<<"myapp">>)}
RuntimeVersionValues ==
  {Undef, Str(<<"1", "0", "0">>), Obj(<<"fingerprint">>), Obj(<<"appVersion">>)}
SdkValues ==
  {Undef, Str(<<"abc">>), Str(<<"34">>), Str(<<"40">>)}
    \cup {Num(k) : k \in (TargetSdkThreshold - 1)..MaxSdk}
NewArchValues == {Undef, Null, Bool(TRUE), Bool(FALSE), Str(<<"false">>)}
ProjectIdValues == {Undef, Str(<<"3f2a">>)}
ObjectOrAbsent == {Undef, Obj(<<>>)}
AutoIncrementValues == {Undef, Bool(TRUE), Bool(FALSE), Str(<<"true">>), Num(1)}
EnvNames == <<"API_URL", "SENTRY_DSN", "STAGE">>
EnvValues == {Undef} \cup {Obj(SubSeq(EnvNames, 1, k)) : k \in 0..MaxEnvKeys}
PathValues == {Undef, Str(<<"/assets/image", "png">>)}
ColorValues == {Undef, Str(<<"#ffffff">>)}

Sizes == {512, RequiredSize}
UnreadFile == [state |-> "unread", w |-> 0, h |-> 0]
MissingFile == [state |-> "missing", w |-> 0, h |-> 0]
PresentFile == [state |-> "present", w |-> 0, h |-> 0]
GoodImage == [state |-> "image", w |-> RequiredSize, h |-> RequiredSize]
DecodedValues ==
  {[state |-> "corrupt", w |-> 0, h |-> 0]}
    \cup {[state |-> "image", w |-> a, h |-> b] : a \in Sizes, b \in Sizes}

\* What the run learns of the file at a path: nothing when no path is declared,
\* its existence, and its content only when the run decodes it ("present"
\* is a file that exists and is never decoded).
FilesAt(path, decoded) ==
  IF ~Truthy(path) THEN {UnreadFile}
  ELSE IF decoded THEN {MissingFile} \cup DecodedValues
  ELSE {MissingFile, PresentFile}

\* The compliant input: the end-to-end PASS scenario, completed.
BaselineCfg ==
  [k \in CfgKeys |->
     CASE k \in {"android.package", "ios.bundleIdentifier"} -> AcmeId
       [] k = "scheme" -> Str(<<"myapp">>)
       [] k = "slug" -> Str(<<"my-app">>)
       [] k = "runtimeVersion" -> Obj(<<"fingerprint">>)
       [] k = "android.targetSdkVersion" -> Num(TargetSdkThreshold)
       [] k = "newArchEnabled" -> Bool(TRUE)
       [] k = "extra.eas.projectId" -> Str(<<"3f2a">>)
       [] k \in {"expo", "build.production", "android.adaptiveIcon"} -> Obj(<<>>)
       [] k = "autoIncrement" -> Bool(TRUE)
       [] k = "env" -> Obj(<<"API_URL">>)
       [] k \in {"icon", "splash.image", "foregroundImage"} -> Str(<<"/assets/image", "png">>)
       [] k = "backgroundColor" -> Str(<<"#ffffff">>)
       [] OTHER -> Undef]

BaselineWorld ==
  [k \in WorldKeys |->
     CASE k \in {"package.json", "config", "eas.json content"} -> "ok"
       [] k \in {"node_modules", "eas.json", "lockfile"} -> "exists"
       [] k = "envelope" -> "exp"
       [] OTHER -> "clean"]

Deviations(c, w, f) ==
  Cardinality({k \in CfgKeys : c[k] \notin {Unread, BaselineCfg[k]}})
    + Cardinality({k \in WorldKeys : w[k] \notin {"unread", BaselineWorld[k]}})
    + Cardinality({a \in AssetNames : f[a] \notin {UnreadFile, PresentFile, GoodImage}})

\* The deviations the run may still meet.
Left == MaxDeviations - Deviations(cfg, world, files)

\* The values of S open to a read with b deviations left; Dev counts one.
Within(S, base, b) == IF b > 0 THEN S ELSE S \cap {base}
Dev(v, base) == IF v = base THEN 0 ELSE 1
CfgWithin(S, k, b) == Within(S, BaselineCfg[k], b)
CfgDev(v, k) == Dev(v, BaselineCfg[k])
WorldWithin(S, k, b) == Within(S, BaselineWorld[k], b)
WorldDev(v, k) == Dev(v, BaselineWorld[k])
FilesWithin(S, b) == IF b > 0 THEN S ELSE S \cap {UnreadFile, PresentFile, GoodImage}
FileDev(f) == IF f \in {UnreadFile, PresentFile, GoodImage} THEN 0 ELSE 1

EmptyLog == [out |-> <<>>, hasFails |-> FALSE]
Log == [out |-> out, hasFails |-> hasFails]

Init ==
  /\ prog \in Validators \cup AssetCheckers
  /\ sizeOf \in (IF prog \in AssetCheckers THEN BOOLEAN ELSE {FALSE})
  /\ pc = "start"
  /\ out = (IF prog \in AssetCheckers THEN loadProbe(EmptyLog, sizeOf).out ELSE <<>>)
  /\ hasFails = FALSE
  /\ summary = <<>>
  /\ exitStatus = 0
  /\ cfg = [k \in CfgKeys |-> Unread]
  /\ world = [k \in WorldKeys |-> "unread"]
  /\ files = [a \in AssetNames |-> UnreadFile]

\* The effect of a step's result R on the process; next is where run() goes on.
Step(R, next) ==
  /\ out' = R.out
  /\ hasFails' = R.hasFails
  /\ pc' = IF R.hung THEN "hung" ELSE IF R.exited THEN "exited" ELSE next
  /\ exitStatus' = IF R.exited THEN R.code ELSE exitStatus
  /\ UNCHANGED <<prog, summary, sizeOf>>


(***************************************************************************)
(* The validator's run(): one action per function it calls.                *)
(***************************************************************************)
CheckLevelZeroPointFive ==
  /\ prog \in Validators
  /\ pc = "start"
  /\ \E pkg \in WorldWithin({"missing", "malformed", "noexpo", "ok"}, "package.json", Left) :
       \E nm \in (IF pkg = "ok"
                  THEN WorldWithin({"missing", "exists"}, "node_modules", Left)
                  ELSE {"unread"}) :
         /\ world' = [world EXCEPT !["package.json"] = pkg, !["node_modules"] = nm]
         /\ Step(checkLevelZeroPointFive(Log, pkg, nm = "exists"), "resolve")
  /\ UNCHANGED <<cfg, files>>

GetResolvedExpoConfig ==
  /\ prog \in {"part_001", "part_002"}
  /\ pc = "resolve"
  /\ \E cmd \in WorldWithin({"fails", "badjson", "hangs", "ok"}, "config", Left) :
       \E envelope \in (IF cmd = "ok"
                        THEN WorldWithin({"exp", "bare"}, "envelope", Left)
                        ELSE {"unread"}) :
         \E slug \in (IF cmd = "ok" /\ prog = "part_001"
                      THEN CfgWithin({Undef, Str(<<"my-app">>)}, "slug",
                                     Left - WorldDev(envelope, "envelope"))
                      ELSE {Unread}) :
           /\ world' = [world EXCEPT !["config"] = cmd, !["envelope"] = envelope]
           /\ cfg' = [cfg EXCEPT !["slug"] = slug, !["expo"] = IF cmd = "ok" THEN Obj(<<>>) ELSE Unread]
           /\ Step(getResolvedExpoConfig(Log, prog, cmd, envelope, slug), "basics")
  /\ UNCHANGED files

ReadAppJson ==
  /\ prog = "part_003"
  /\ pc = "resolve"
  /\ \E file \in WorldWithin({"missing", "malformed", "ok"}, "config", Left) :
       \E expo \in (IF file = "ok" THEN CfgWithin(ObjectOrAbsent, "expo", Left) ELSE {Unread}) :
         /\ world' = [world EXCEPT !["config"] = file]
         /\ cfg' = [cfg EXCEPT !["expo"] = expo]
         /\ Step(readAppJson(Log, file), "basics")
  /\ UNCHANGED files

\* checkLevelZeroBasics asking the git probe anew where it uses the answer:
\* the answer used need not be the answer the run was given.
CheckLevelZeroBasicsAsksTwice ==
  /\ prog \in Validators
  /\ pc = "basics"
  /\ \E eas \in WorldWithin({"missing", "exists"}, "eas.json", Left) :
       \E projectId \in (IF eas = "missing" THEN {Unread}
                         ELSE IF Truthy(cfg["expo"])
                         THEN CfgWithin(ProjectIdValues, "extra.eas.projectId", Left)
                         ELSE {Undef}) :
         LET b1 == Left - CfgDev(projectId, "extra.eas.projectId")
         IN \E lock \in (IF eas = "missing" THEN {"unread"}
                         ELSE WorldWithin({"missing", "exists"}, "lockfile", b1)) :
              LET b2 == b1 - WorldDev(lock, "lockfile")
              IN \E git \in (IF eas = "missing" \/ prog = "part_001" THEN {"unread"}
                             ELSE WorldWithin({"clean", "dirty", "error"}, "git", b2)) :
                   \E again \in {"clean", "dirty", "error"} :
                     /\ world' = [world EXCEPT !["eas.json"] = eas, !["lockfile"] = lock, !["git"] = git]
                     /\ cfg' = [cfg EXCEPT !["extra.eas.projectId"] = projectId]
                     /\ Step(checkLevelZeroBasics(Log, prog, eas = "exists", projectId,
                                                  lock = "exists", again), "appjson")
  /\ UNCHANGED files

CheckLevelZeroBasics ==
  /\ prog \in Validators
  /\ pc = "basics"
  /\ \E eas \in WorldWithin({"missing", "exists"}, "eas.json", Left) :
       \E projectId \in (IF eas = "missing" THEN {Unread}
                         ELSE IF Truthy(cfg["expo"])
                         THEN CfgWithin(ProjectIdValues, "extra.eas.projectId", Left)
                         ELSE {Undef}) :
         LET b1 == Left - CfgDev(projectId, "extra.eas.projectId")
         IN \E lock \in (IF eas = "missing" THEN {"unread"}
                         ELSE WorldWithin({"missing", "exists"}, "lockfile", b1)) :
              LET b2 == b1 - WorldDev(lock, "lockfile")
              IN \E git \in (IF eas = "missing" \/ prog = "part_001" THEN {"unread"}
                             ELSE WorldWithin({"clean", "dirty", "error"}, "git", b2)) :
                   /\ world' = [world EXCEPT !["eas.json"] = eas, !["lockfile"] = lock, !["git"] = git]
                   /\ cfg' = [cfg EXCEPT !["extra.eas.projectId"] = projectId]
                   /\ Step(checkLevelZeroBasics(Log, prog, eas = "exists", projectId,
                                                lock = "exists", git), "appjson")
  /\ UNCHANGED files

\* The fields validateAppJson reads of the expo object.
ReadExpoFields ==
  \E android \in CfgWithin(IdentifierValues, "android.package", Left) :
    LET b1 == Left - CfgDev(android, "android.package")
    IN \E ios \in CfgWithin(IdentifierValues, "ios.bundleIdentifier", b1) :
         LET b2 == b1 - CfgDev(ios, "ios.bundleIdentifier")
         IN \E scheme \in CfgWithin(SchemeValues, "scheme", b2) :
              LET b3 == b2 - CfgDev(scheme, "scheme")
              IN \E rv \in CfgWithin(RuntimeVersionValues, "runtimeVersion", b3) :
                   LET b4 == b3 - CfgDev(rv, "runtimeVersion")
                   IN \E sdk \in CfgWithin(SdkValues, "android.targetSdkVersion", b4) :
                        LET b5 == b4 - CfgDev(sdk, "android.targetSdkVersion")
                        IN \E newArch \in CfgWithin(NewArchValues, "newArchEnabled", b5) :
                             cfg' = [cfg EXCEPT !["android.package"] = android,
                                                !["ios.bundleIdentifier"] = ios,
                                                !["scheme"] = scheme,
                                                !["runtimeVersion"] = rv,
                                                !["android.targetSdkVersion"] = sdk,
                                                !["newArchEnabled"] = newArch]

ValidateAppJson ==
  /\ prog \in Validators
  /\ pc = "appjson"
  /\ IF Truthy(cfg["expo"]) THEN ReadExpoFields ELSE cfg' = cfg
  /\ Step(Cont(validateAppJson(Log, prog, cfg')), "eas")
  /\ UNCHANGED <<world, files>>

ReadEasJson ==
  /\ prog \in Validators
  /\ pc = "eas"
  /\ \E content \in WorldWithin({"malformed", "ok"}, "eas.json content", Left) :
       \E production \in (IF content = "ok"
                          THEN CfgWithin(ObjectOrAbsent, "build.production", Left)
                          ELSE {Unread}) :
         \E auto \in (IF Truthy(production)
                      THEN CfgWithin(AutoIncrementValues, "autoIncrement", Left)
                      ELSE {Unread}) :
           \E env \in (IF Truthy(production)
                       THEN CfgWithin(EnvValues, "env", Left - CfgDev(auto, "autoIncrement"))
                       ELSE {Unread}) :
             /\ world' = [world EXCEPT !["eas.json content"] = content]
             /\ cfg' = [cfg EXCEPT !["build.production"] = production,
                                   !["autoIncrement"] = auto,
                                   !["env"] = env]
             /\ Step(Cont(readEasJson(Log, content, cfg')), "summary")
  /\ UNCHANGED files

\* The end of run() printing its summary line twice before process.exit.
SummaryTwice ==
  /\ pc = "summary"
  /\ summary' = Append(summary, summaryLine(hasFails))
  /\ exitStatus' = exitCode(hasFails)
  /\ pc' = IF summary = <<>> THEN "summary" ELSE "exited"
  /\ UNCHANGED <<prog, out, hasFails, cfg, world, files, sizeOf>>

\* The end of run() in all five scripts: one summary line, then process.exit.
Summary ==
  /\ pc = "summary"
  /\ summary' = Append(summary, summaryLine(hasFails))
  /\ exitStatus' = exitCode(hasFails)
  /\ pc' = "exited"
  /\ UNCHANGED <<prog, out, hasFails, cfg, world, files, sizeOf>>

(***************************************************************************)
(* The asset checker's run(): loading the configuration, then one action   *)
(* per numbered block.                                                     *)
(***************************************************************************)
LoadAppJson ==
  /\ prog = "assets_direct"
  /\ pc = "start"
  /\ \E file \in WorldWithin({"missing", "unreadable", "malformed", "ok"}, "config", Left) :
       \E expo \in (IF file = "ok" THEN CfgWithin(ObjectOrAbsent, "expo", Left) ELSE {Unread}) :
         /\ world' = [world EXCEPT !["config"] = file]
         /\ cfg' = [cfg EXCEPT !["expo"] = expo]
         /\ Step(loadAppJson(Log, file, expo), "icon")
  /\ UNCHANGED files

CompileConfig ==
  /\ prog = "assets_compiled"
  /\ pc = "start"
  /\ \E cmd \in WorldWithin({"fails", "badjson", "hangs", "ok"}, "config", Left) :
       \E envelope \in (IF cmd = "ok"
                        THEN WorldWithin({"exp", "bare"}, "envelope", Left)
                        ELSE {"unread"}) :
         /\ world' = [world EXCEPT !["config"] = cmd, !["envelope"] = envelope]
         /\ cfg' = [cfg EXCEPT !["expo"] = IF cmd = "ok" THEN Obj(<<>>) ELSE Unread]
         /\ Step(compileConfig(Log, cmd), "icon")
  /\ UNCHANGED files

CheckIcon ==
  /\ prog \in AssetCheckers
  /\ pc = "icon"
  /\ \E path \in CfgWithin(PathValues, "icon", Left) :
       \E f \in FilesWithin(FilesAt(path, sizeOf), Left - CfgDev(path, "icon")) :
         /\ cfg' = [cfg EXCEPT !["icon"] = path]
         /\ files' = [files EXCEPT !["icon"] = f]
         /\ Step(Cont(iconBlock(Log, sizeOf, path, f)), "splash")
  /\ UNCHANGED world

CheckSplash ==
  /\ prog \in AssetCheckers
  /\ pc = "splash"
  /\ \E path \in CfgWithin(PathValues, "splash.image", Left) :
       \E f \in FilesWithin(FilesAt(path, FALSE), Left - CfgDev(path, "splash.image")) :
         /\ cfg' = [cfg EXCEPT !["splash.image"] = path]
         /\ files' = [files EXCEPT !["splash"] = f]
         /\ Step(Cont(splashBlock(Log, path, f)), "adaptive")
  /\ UNCHANGED world

\* The fields block 3 reads of an adaptive icon, and the files at its paths.
\* backgroundImage is part of the document whether or not the code reads it.
ReadAdaptiveIcon ==
  \E fgPath \in CfgWithin(PathValues, "foregroundImage", Left) :
    LET b1 == Left - CfgDev(fgPath, "foregroundImage")
    IN \E color \in CfgWithin(ColorValues, "backgroundColor", b1) :
         LET b2 == b1 - CfgDev(color, "backgroundColor")
         IN \E bgPath \in CfgWithin(PathValues, "backgroundImage", b2) :
              LET b3 == b2 - CfgDev(bgPath, "backgroundImage")
              IN \E fg \in FilesWithin(FilesAt(fgPath, sizeOf), b3) :
                   \E bg \in (IF Truthy(color) THEN {UnreadFile}
                              ELSE FilesWithin(FilesAt(bgPath, sizeOf), b3 - FileDev(fg))) :
                     /\ cfg' = [cfg EXCEPT !["android.adaptiveIcon"] = Obj(<<>>),
                                           !["foregroundImage"] = fgPath,
                                           !["backgroundColor"] = color,
                                           !["backgroundImage"] = bgPath]
                     /\ files' = [files EXCEPT !["foreground"] = fg, !["background"] = bg]

CheckAdaptiveIcon ==
  /\ prog \in AssetCheckers
  /\ pc = "adaptive"
  /\ \/ ReadAdaptiveIcon
     \/ /\ Left > 0
        /\ cfg' = [cfg EXCEPT !["android.adaptiveIcon"] = Undef]
        /\ files' = files
  /\ Step(Cont(adaptiveBlock(Log, prog, sizeOf, cfg', files'["foreground"], files'["background"])),
          "ios")
  /\ UNCHANGED world

CheckIosIcon ==
  /\ prog \in AssetCheckers
  /\ pc = "ios"
  /\ \E path \in CfgWithin(PathValues, "ios.icon", Left) :
       \E f \in FilesWithin(FilesAt(path, sizeOf), Left - CfgDev(path, "ios.icon")) :
         /\ cfg' = [cfg EXCEPT !["ios.icon"] = path]
         /\ files' = [files EXCEPT !["ios.icon"] = f]
         /\ Step(Cont(iosIconBlock(Log, sizeOf, path, f)), "summary")
  /\ UNCHANGED world

Next ==
  \/ CheckLevelZeroPointFive
  \/ GetResolvedExpoConfig
  \/ ReadAppJson
  \/ CheckLevelZeroBasics
  \/ ValidateAppJson
  \/ ReadEasJson
  \/ LoadAppJson
  \/ CompileConfig
  \/ CheckIcon
  \/ CheckSplash
  \/ CheckAdaptiveIcon
  \/ CheckIosIcon
  \/ Summary

Spec == Init /\ [][Next]_vars


(***************************************************************************)
(* Properties.                                                             *)
(***************************************************************************)
Idx == 1..Len(out)
Exited == pc = "exited"
ReachedSummary == summary # <<>>
Has(sev, subject, msg) ==
  \E i \in Idx : out[i].sev = sev /\ out[i].subject = subject /\ out[i].msg = msg
About(subject) == {i \in Idx : out[i].subject = subject}
FailLines == {i \in Idx : out[i].sev = "[FAIL]"}
WarnLines == {i \in Idx : out[i].sev = "[WARN]"}

\* The subjects of the rule catalog, and of the asset rules.
RuleSubjects ==
  {"android.package", "ios.bundleIdentifier", "scheme", "runtimeVersion",
   "android.targetSdkVersion", "newArchEnabled", "build.production",
   "autoIncrement", "env", "projectId", "lockfile", "git",
   "Global Icon", "Splash Screen", "Android Foreground Image", "Android Background",
   "Android Background Image", "Android Adaptive Icon", "iOS Specific Icon"}
RuleLines == {i \in Idx : out[i].subject \in RuleSubjects}

\* C1: when run() reaches the summary, the verdict is FAIL with exit status 1
\* if and only if some Finding logged in the run has severity FAIL; WARN and
\* PASS Findings alone never give a FAIL verdict.
C1_VerdictFailIffFailFinding ==
  (Exited /\ ReachedSummary) =>
    /\ (exitStatus = 1) <=> (FailLines # {})
    /\ (exitStatus = 0) <=> (FailLines = {})
    /\ summary = <<IF FailLines # {} THEN "failed" ELSE "successful">>

C1_Witness ==
  /\ Exited /\ ReachedSummary
  /\ exitStatus = 1
  /\ Cardinality(FailLines) = 1
  /\ WarnLines # {}

\* The fatal preconditions C2 lists, as the run met them.
ConfigUnavailable ==
  world["config"] \in {"missing", "unreadable", "malformed", "fails", "badjson"}
ProfileDocumentMissing == world["eas.json"] = "missing"
ProfileDocumentUnparsable == world["eas.json content"] = "malformed"
AbortedBeforeCatalog == Exited /\ exitStatus = 1 /\ summary = <<>> /\ RuleLines = {}

\* C2 as claimed: every fatal precondition (configuration missing or
\* unparsable, build-profile document missing or unparsable, external
\* compilation failing) aborts the run with a non-zero status before any
\* catalog rule has emitted a Finding.
C2_Original ==
  (ConfigUnavailable \/ ProfileDocumentMissing \/ ProfileDocumentUnparsable)
    => AbortedBeforeCatalog

\* C2 as amended: a missing or unparsable configuration, a failing external
\* compilation and a missing build-profile document abort the run with status
\* 1 before any catalog rule has emitted a Finding; an unparsable build-profile
\* document is reported by a FAIL after the configuration rules have run, no
\* catalog rule runs after that FAIL, and the run ends with status 1.
C2_FatalPreconditions ==
  /\ (ConfigUnavailable \/ ProfileDocumentMissing) => AbortedBeforeCatalog
  /\ ProfileDocumentUnparsable =>
       /\ out[Len(out)] = Finding("[FAIL]", "eas.json", "Error reading eas.json", NoArgs)
       /\ About("projectId") # {} /\ About("lockfile") # {}
       /\ hasFails
       /\ Exited => exitStatus = 1

C2_Witness == ProfileDocumentMissing /\ Exited /\ exitStatus = 1 /\ Len(out) = 4

\* C3: when the build-profile document has no "production" profile, a FAIL is
\* reported for the missing profile, it is the last Finding of the run (no
\* auto-increment or environment-variable Finding follows), and the run ends
\* with a non-zero status.
C3_MissingProfileEndsRun ==
  cfg["build.production"] = Undef =>
    /\ out[Len(out)] = Finding("[FAIL]", "build.production", "production profile not found", NoArgs)
    /\ About("autoIncrement") = {} /\ About("env") = {}
    /\ pc \in {"summary", "exited"}
    /\ Exited => (exitStatus = 1 /\ summary = <<"failed">>)

C3_Witness ==
  /\ cfg["build.production"] = Undef
  /\ Exited
  /\ Cardinality(FailLines) = 1

\* C4 as claimed: the Target SDK rule emits FAIL when targetSdkVersion is
\* absent or a number below 35, PASS when it is a number of at least 35, and
\* never WARN.
C4_TargetSdk ==
  LET v == cfg["android.targetSdkVersion"]
  IN v # Unread =>
       \A i \in About("android.targetSdkVersion") :
         /\ out[i].sev # "[WARN]"
         /\ (v = Undef \/ (v.t = "number" /\ v.n < 35)) => out[i].sev = "[FAIL]"
         /\ (v.t = "number" /\ v.n >= 35) => out[i].sev = "[PASS]"

\* The reserved prefixes: com|br x example|test|demo, each followed by a dot.
ReservedPrefixes ==
  {<<a, b>> : a \in {"com", "br"}, b \in {"example", "test", "demo"}}
StartsWithReserved(v) ==
  /\ v.t = "string"
  /\ Len(v.s) >= 3
  /\ <<Lower(v.s[1]), Lower(v.s[2])>> \in ReservedPrefixes
IdentityPolicy(key) ==
  LET v == cfg[key]
  IN v # Unread =>
       /\ Cardinality(About(key)) = 1
       /\ \A i \in About(key) :
            IF v \in {Undef, Null, Str(<<>>)}
            THEN out[i].sev = "[FAIL]" /\ out[i].args = NoArgs
            ELSE IF StartsWithReserved(v)
            THEN out[i].sev = "[FAIL]" /\ out[i].args = <<v>>
            ELSE out[i].sev = "[PASS]"

\* C5: the Android and the iOS identity rule apply one policy to
\* android.package and ios.bundleIdentifier: missing is FAIL; a reserved
\* prefix, compared case-insensitively, is FAIL with the value in the
\* message; anything else is PASS.
C5_IdentityRules ==
  IdentityPolicy("android.package") /\ IdentityPolicy("ios.bundleIdentifier")

C5_Witness ==
  /\ cfg["android.package"] = Str(<<"COM", "Test", "app">>)
  /\ cfg["ios.bundleIdentifier"] = Str(<<"com", "example">>)
  /\ Has("[FAIL]", "android.package", "Invalid android.package")
  /\ Has("[PASS]", "ios.bundleIdentifier", "Valid ios.bundleIdentifier")


\* The FAIL lines that are not the auto-increment rule's.
OtherFailLines == {i \in FailLines : out[i].subject # "autoIncrement"}

\* C6: a production profile whose autoIncrement is not the boolean true
\* (false, absent, "true", 1) gets the FAIL "autoIncrement is not true" and
\* the run ends FAIL with status 1; with every other Finding compliant the
\* verdict is PASS exactly when autoIncrement is true.
C6_AutoIncrement ==
  LET v == cfg["autoIncrement"]
  IN (Exited /\ v # Unread) =>
       /\ v # Bool(TRUE) =>
            /\ Has("[FAIL]", "autoIncrement", "autoIncrement is not true")
            /\ exitStatus = 1 /\ summary = <<"failed">>
       /\ v = Bool(TRUE) => Has("[PASS]", "autoIncrement", "autoIncrement is active")
       /\ OtherFailLines = {} => ((exitStatus = 0) <=> (v = Bool(TRUE)))

C6_Witness ==
  /\ Exited
  /\ cfg["autoIncrement"] = Num(1)
  /\ OtherFailLines = {}
  /\ exitStatus = 1

\* The end-to-end PASS scenario, with the fields the spec lists and no other.
ScenarioConfig ==
  /\ prog \in Validators
  /\ cfg["scheme"] = Str(<<"myapp">>)
  /\ cfg["autoIncrement"] = Bool(TRUE)
  /\ cfg["env"] = Obj(<<"API_URL">>)
  /\ cfg["android.targetSdkVersion"] = Num(35)
  /\ cfg["android.package"] = AcmeId
  /\ cfg["ios.bundleIdentifier"] = AcmeId
ScenarioIcon ==
  /\ prog \in AssetCheckers
  /\ Truthy(cfg["icon"])
  /\ files["icon"] \in {GoodImage, PresentFile}
Passed == FailLines = {} /\ exitStatus = 0 /\ summary = <<"successful">>

\* The documents hold the listed fields and no other; the project root has
\* a lockfile and a clean working tree.
NothingElseDeclared ==
  /\ \A k \in {"runtimeVersion", "newArchEnabled", "extra.eas.projectId", "splash.image",
                "android.adaptiveIcon", "ios.icon"} : cfg[k] \in {Unread, Undef}
  /\ world["lockfile"] \in {"unread", "exists"}
  /\ world["git"] \in {"unread", "clean"}

AssetInOrder(a) == files[a] \in {UnreadFile, PresentFile, GoodImage}

C8_RuntimeVersion ==
  LET v == cfg["runtimeVersion"]
  IN v # Unread =>
       /\ Cardinality(About("runtimeVersion")) = 1
       /\ \A i \in About("runtimeVersion") :
            /\ out[i].sev \in {"[PASS]", "[WARN]"}
            /\ (out[i].sev = "[PASS]") <=> (v = Obj(<<"fingerprint">>))

C8_Witness ==
  /\ cfg["runtimeVersion"] = Obj(<<"appVersion">>)
  /\ Has("[WARN]", "runtimeVersion", "Prefer policy fingerprint")

\* C9: an adaptive icon declared with neither backgroundColor nor
\* backgroundImage gets a FAIL naming the background requirement; with
\* backgroundColor set the background check emits PASS.
C9_AdaptiveBackground ==
  cfg["android.adaptiveIcon"] = Obj(<<>>) =>
    /\ (~Truthy(cfg["backgroundColor"]) /\ ~Truthy(cfg["backgroundImage"])) =>
         Has("[FAIL]", "Android Background", "requires backgroundColor or backgroundImage")
    /\ Truthy(cfg["backgroundColor"]) =>
         /\ Has("[PASS]", "Android Background", "background color is set")
         /\ \A i \in About("Android Background") : out[i].sev = "[PASS]"

C9_Witness ==
  /\ cfg["android.adaptiveIcon"] = Obj(<<>>)
  /\ cfg["backgroundColor"] = Undef /\ cfg["backgroundImage"] = Undef
  /\ Has("[FAIL]", "Android Background", "requires backgroundColor or backgroundImage")
  /\ Exited /\ exitStatus = 1

DimensionMessages ==
  {"Could not parse image dimensions", "Invalid dimensions", "Dimensions are correct"}
DimensionLines == {i \in Idx : out[i].msg \in DimensionMessages}

\* The existence Finding of the asset a, declared at the document field key.
ExistenceReported(key, name, a) ==
  (Truthy(cfg[key]) /\ files[a] # UnreadFile) =>
    /\ Cardinality(About(name)) = 1
    /\ IF files[a] = MissingFile
       THEN Has("[FAIL]", name, "File not found at path")
       ELSE Has("[PASS]", name, "File exists")

BeforeResolve == [out |-> SubSeq(out, 1, 2), hasFails |-> FALSE]

\* What getResolvedExpoConfig makes of this run's payload under the envelope e.
ResolvedUnder(e) == getResolvedExpoConfig(BeforeResolve, prog, "ok", e, cfg["slug"])

\* C11 as claimed: a payload resolves alike whether the compiler emits it
\* wrapped under "exp" or unwrapped: the resolution step gives the same
\* Finding and the same continuation for both envelopes, so the run's line is
\* the one either envelope gives, and the asset checker accepts both.
C11_EnvelopeIndependent ==
  /\ (prog \in {"part_001", "part_002"} /\ world["config"] = "ok") =>
       /\ ResolvedUnder("exp") = ResolvedUnder("bare")
       /\ out[3] = ResolvedUnder("exp").out[3]
       /\ out[3] = ResolvedUnder("bare").out[3]
  /\ (prog = "assets_compiled" /\ world["config"] = "ok") =>
       ~Has("[FAIL]", "config", "Failed to compile Expo config")

\* The rule subjects in the order of the catalog of section 4.2.
CatalogOrder ==
  <<"android.package", "ios.bundleIdentifier", "scheme", "runtimeVersion",
    "android.targetSdkVersion", "newArchEnabled", "build.production",
    "autoIncrement", "env", "projectId", "lockfile", "git">>

\* The rule subjects in the order run() evaluates them.
EvaluationOrder ==
  <<"projectId", "lockfile", "git", "android.package", "ios.bundleIdentifier",
    "scheme", "runtimeVersion", "android.targetSdkVersion", "newArchEnabled",
    "build.production", "autoIncrement", "env">>

\* The place of a subject in an order.
Rank(order, subject) == CHOOSE k \in 1..Len(order) : order[k] = subject

\* Every Finding of a subject comes after the Findings of the subjects before
\* it: along the log, the rules' Findings never step back in the order.
InOrder(order) ==
  LET subjects == {order[k] : k \in 1..Len(order)}
      lines == SelectSeq(out, LAMBDA x : x.subject \in subjects)
  IN \A i \in 1..(Len(lines) - 1) :
       Rank(order, lines[i].subject) <= Rank(order, lines[i + 1].subject)

\* C12 as claimed: in every completed run the Findings follow the catalog
\* order of section 4.2, the project link id, lockfile and version-control
\* Findings coming last.
C12_Original ==
  (prog \in Validators /\ Exited /\ ReachedSummary) => InOrder(CatalogOrder)

\* C12 as amended: the Findings follow the order in which run() calls the
\* rules: project link id, lockfile, version-control cleanliness, Android
\* identity, iOS identity, linking scheme, runtime version, target SDK,
\* new-architecture flag, build-profile existence, auto-increment, declared
\* environment variables; each rule's Finding comes after the Findings of
\* all rules before it in this list, at every point of every run.
C12_EvaluationOrder ==
  prog \in Validators => InOrder(EvaluationOrder)

C12_Witness ==
  /\ prog = "part_002" /\ Exited /\ ReachedSummary
  /\ \A a \in 1..Len(EvaluationOrder) :
       EvaluationOrder[a] # "build.production" => About(EvaluationOrder[a]) # {}
  /\ Has("[FAIL]", "lockfile", "No lockfile found")

\* The rules of the configuration document, and the rules that no
\* build-profile gate covers.
ConfigSubjects ==
  {"android.package", "ios.bundleIdentifier", "scheme", "runtimeVersion",
   "android.targetSdkVersion", "newArchEnabled"}
UngatedSubjects == ConfigSubjects \cup {"projectId", "lockfile"}

\* The run met no fatal precondition on its way and validateAppJson has returned.
PastConfigRules ==
  /\ prog \in Validators
  /\ pc \in {"eas", "summary"} \/ (Exited /\ ReachedSummary)

\* C13 as claimed: in every run whose preconditions resolved, each of the
\* identity, scheme, runtime-version, target-SDK, new-architecture,
\* project-link and lockfile rules emits its Finding, whatever the other
\* fields hold.
C13_Original ==
  PastConfigRules => \A s \in UngatedSubjects : Cardinality(About(s)) = 1

\* C13 as amended: in every such run the project-link and the lockfile rule
\* each emit one Finding; the identity, scheme, runtime-version, target-SDK
\* and new-architecture rules each emit one Finding when the configuration
\* holds an "expo" object, whatever the other fields hold and whatever the
\* other rules report; a directly parsed document without an "expo" object
\* gets one FAIL for that and none of these six Findings.
C13_RulesIndependent ==
  PastConfigRules =>
    /\ \A s \in {"projectId", "lockfile"} : Cardinality(About(s)) = 1
    /\ IF Truthy(cfg["expo"])
       THEN /\ \A s \in ConfigSubjects : Cardinality(About(s)) = 1
            /\ About("expo") = {}
       ELSE /\ \A s \in ConfigSubjects : About(s) = {}
            /\ Has("[FAIL]", "expo", "expo object not found")
            /\ Cardinality(About("expo")) = 1

C13_Witness ==
  /\ PastConfigRules
  /\ Has("[FAIL]", "projectId", "Missing expo.extra.eas.projectId")
  /\ Has("[FAIL]", "android.package", "Missing android.package")
  /\ Has("[FAIL]", "android.targetSdkVersion", "targetSdkVersion is below 35")
  /\ \A s \in UngatedSubjects : Cardinality(About(s)) = 1

\* C14 as claimed: the version-control rule emits its Finding in every
\* completed run, PASS or WARN only: WARN for uncommitted changes, WARN for a
\* probe that is unavailable or errors; so the verdict does not depend on
\* what the probe reports.
C14_GitRule ==
  (prog \in Validators /\ Exited /\ ReachedSummary) =>
    /\ Cardinality(About("git")) = 1
    /\ \A i \in About("git") :
         /\ out[i].sev \in {"[PASS]", "[WARN]"}
         /\ world["git"] \in {"dirty", "error"} => out[i].sev = "[WARN]"
         /\ world["git"] = "clean" => out[i].sev = "[PASS]"

MetFatalPrecondition ==
  \/ world["package.json"] \in {"missing", "malformed", "noexpo"}
  \/ world["node_modules"] = "missing"
  \/ ConfigUnavailable
  \/ prog = "part_002" /\ world["envelope"] = "bare"
  \/ prog = "part_001" /\ cfg["slug"] = Undef
  \/ prog = "assets_direct" /\ cfg["expo"] = Undef
  \/ ProfileDocumentMissing

SummaryWritten ==
  /\ Len(summary) <= 1
  /\ (Exited /\ ~MetFatalPrecondition) =>
       summary = <<IF FailLines # {} THEN "failed" ELSE "successful">>

\* C16: a run that no fatal precondition aborts writes exactly one summary
\* line, stating the verdict, and writes it after every Finding line: once
\* the summary is printed no Finding is emitted and no second summary follows.
C16_SummaryLast ==
  /\ []SummaryWritten
  /\ [][summary # <<>> => (out' = out /\ summary' = summary)]_vars

C16_Witness ==
  /\ Exited /\ ~MetFatalPrecondition
  /\ Len(summary) = 1
  /\ prog \in AssetCheckers
  /\ Cardinality(FailLines) = 2
  /\ Len(out) >= 6

\* The Findings about one asset, in emission order.
FindingsAbout(name) == SelectSeq(out, LAMBDA x : x.subject = name)

\* What the two steps are to report of the file f declared at path: the
\* existence Finding, then (expectDims: the asset has expected dimensions and
\* the probe is available) one dimension Finding.
TwoSteps(name, path, f, expectDims) ==
  IF f.state = "missing"
  THEN <<Finding("[FAIL]", name, "File not found at path", <<path>>)>>
  ELSE <<Finding("[PASS]", name, "File exists", <<path>>)>>
         \o (IF ~expectDims THEN <<>>
             ELSE IF f.state = "corrupt"
             THEN <<Finding("[FAIL]", name, "Could not parse image dimensions", NoArgs)>>
             ELSE IF f.w = 1024 /\ f.h = 1024
             THEN <<Finding("[PASS]", name, "Dimensions are correct", <<Num(1024), Num(1024)>>)>>
             ELSE <<Finding("[FAIL]", name, "Invalid dimensions",
                            <<Num(1024), Num(1024), Num(f.w), Num(f.h)>>)>>)

\* The asset a, declared at the document field key, has been inspected.
Inspected(key, a) == Truthy(cfg[key]) /\ files[a] # UnreadFile

AssetChecked(key, name, a, expectDims) ==
  Inspected(key, a) => FindingsAbout(name) = TwoSteps(name, cfg[key], files[a], expectDims)

\* C17: each inspected asset is checked in two steps: a missing path gives
\* one FAIL naming the path and no dimension Finding; an existing path gives
\* PASS and then, when the probe is available and dimensions are expected
\* (every asset but the splash image), exactly one dimension Finding: FAIL
\* on a decode failure, FAIL with expected and actual size when the width or
\* the height is not 1024, PASS on 1024x1024.
C17_CheckAsset ==
  prog \in AssetCheckers =>
    /\ AssetChecked("icon", "Global Icon", "icon", sizeOf)
    /\ AssetChecked("splash.image", "Splash Screen", "splash", FALSE)
    /\ AssetChecked("foregroundImage", "Android Foreground Image", "foreground", sizeOf)
    /\ AssetChecked("backgroundImage", "Android Background Image", "background", sizeOf)
    /\ AssetChecked("ios.icon", "iOS Specific Icon", "ios.icon", sizeOf)

C17_Witness ==
  /\ prog \in AssetCheckers /\ sizeOf /\ Exited
  /\ files["icon"] = [state |-> "image", w |-> 512, h |-> 1024]
  /\ Inspected("ios.icon", "ios.icon") /\ files["ios.icon"] = MissingFile
  /\ Has("[FAIL]", "Global Icon", "Invalid dimensions")
  /\ Has("[PASS]", "Android Foreground Image", "Dimensions are correct")

\* The external compiler never returned.
CompilerHangs == world["config"] = "hangs"

\* C18 as claimed: the external compile is bounded by a timeout: when the
\* compiler never returns the run ends all the same, with one FAIL Finding
\* for the failed resolution as its last line and the exit status 1.
C18_CompilerTimeout ==
  CompilerHangs =>
    /\ Exited /\ exitStatus = 1
    /\ Cardinality(FailLines) = 1
    /\ out[Len(out)].sev = "[FAIL]" /\ out[Len(out)].subject = "config"

AdaptiveIconChecked == prog \in AssetCheckers /\ cfg["android.adaptiveIcon"] = Obj(<<>>)
HasColor == Truthy(cfg["backgroundColor"])
HasImage == Truthy(cfg["backgroundImage"])
BackgroundRejected ==
  Has("[FAIL]", "Android Background", "requires backgroundColor or backgroundImage")

\* C19 as claimed: the background requirement of a declared adaptive icon
\* accepts the configuration (no FAIL from the requirement itself) if and
\* only if exactly one of backgroundColor and backgroundImage is declared.
C19_Original ==
  AdaptiveIconChecked => (~BackgroundRejected <=> (HasColor # HasImage))

\* C19 as amended: the requirement accepts the configuration if and only if
\* at least one of the two is declared.  A declared backgroundColor gives
\* PASS and the backgroundImage, declared or not, is not inspected; with no
\* backgroundColor a declared backgroundImage is checked as an asset.
C19_AtLeastOne ==
  AdaptiveIconChecked =>
    /\ ~BackgroundRejected <=> (HasColor \/ HasImage)
    /\ HasColor =>
         /\ Has("[PASS]", "Android Background", "background color is set")
         /\ About("Android Background Image") = {}
    /\ (~HasColor /\ HasImage) =>
         /\ About("Android Background") = {}
         /\ About("Android Background Image") # {}

C19_Witness ==
  /\ AdaptiveIconChecked /\ Exited
  /\ HasColor /\ HasImage
  /\ ~BackgroundRejected
  /\ exitStatus = 0

NoFailAbout(name) == \A i \in About(name) : out[i].sev # "[FAIL]"

\* C20: of the asset subjects only the primary icon is required: a
\* configuration without an icon gets a FAIL, while an undeclared splash
\* image, an undeclared adaptive-icon foreground, an undeclared adaptive icon
\* and an undeclared iOS icon get no FAIL; the iOS icon has Findings exactly
\* when it is declared.
C20_OnlyIconRequired ==
  prog \in AssetCheckers =>
    /\ cfg["icon"] = Undef =>
         FindingsAbout("Global Icon") = <<Finding("[FAIL]", "Global Icon", "Missing global icon", NoArgs)>>
    /\ cfg["splash.image"] = Undef => NoFailAbout("Splash Screen")
    /\ cfg["foregroundImage"] = Undef => NoFailAbout("Android Foreground Image")
    /\ cfg["android.adaptiveIcon"] = Undef =>
         /\ NoFailAbout("Android Adaptive Icon")
         /\ About("Android Foreground Image") = {}
         /\ About("Android Background") = {}
         /\ About("Android Background Image") = {}
    /\ cfg["ios.icon"] = Undef => About("iOS Specific Icon") = {}
    /\ Truthy(cfg["ios.icon"]) => About("iOS Specific Icon") # {}

C20_Witness ==
  /\ prog \in AssetCheckers /\ Exited
  /\ cfg["icon"] = Undef
  /\ cfg["splash.image"] = Undef
  /\ cfg["foregroundImage"] = Undef
  /\ cfg["ios.icon"] = Undef
  /\ Cardinality(FailLines) = 1
  /\ exitStatus = 1

\* C21: the New architecture rule emits one Finding: WARN when
\* newArchEnabled is exactly the boolean false, PASS for true, absent, null
\* or any other value (the string "false" included); it never emits FAIL.
C21_NewArch ==
  LET v == cfg["newArchEnabled"]
  IN v # Unread =>
       /\ Cardinality(About("newArchEnabled")) = 1
       /\ \A i \in About("newArchEnabled") :
            /\ out[i].sev \in {"[PASS]", "[WARN]"}
            /\ (out[i].sev = "[WARN]") <=> (v = Bool(FALSE))

C21_Witness ==
  /\ cfg["newArchEnabled"] = Null
  /\ Has("[PASS]", "newArchEnabled", "New Architecture not disabled")
  /\ Exited /\ exitStatus = 0

\* v is a number, or a string that denotes one.
Numeric(v) ==
  \/ v.t = "number"
  \/ v.t = "string" /\ Len(v.s) = 1 /\ v.s[1] \in NumericStrings

\* C22 as claimed: the Target SDK rule emits PASS only for a numeric
\* targetSdkVersion of at least 35; a value that is not a number and does
\* not denote one never gets PASS.
C22_NumericOnly ==
  LET v == cfg["android.targetSdkVersion"]
  IN v # Unread =>
       \A i \in About("android.targetSdkVersion") :
         out[i].sev = "[PASS]" => (Numeric(v) /\ ToNumber(v) >= 35)

\* C23 as claimed: on every path of every script, early aborts included, the
\* process ends with a non-zero status only after at least one [FAIL] line
\* has been emitted.
C23_StatusExplained ==
  (Exited /\ exitStatus # 0) => (FailLines # {} /\ hasFails)

====
